---------------------------- MODULE Spec2Model ----------------------------
(***************************************************************************)
(* Eddy-current (Foucault) comparison script, src/main.py: the per-material*)
(* explicit diffusion solver, its derived quantities, the quadrature       *)
(* snapshot and the summarisation into `resultados`.                       *)
(*                                                                         *)
(* Numbers.  The script computes in float64; the model computes in         *)
(* fixed point on 32-bit integers, each quantity in a unit of its own:     *)
(*   length        1e-4 m          time          1 ns                      *)
(*   angle         1e-6 rad        sin, cos      1e-6                      *)
(*   field Bz      1e-6 T          mu            1e-10 H/m                 *)
(*   sigma         1e6 S/m         mu*sigma      1e-3 s/m^2                *)
(*   dBz/dx        1e-4 T/m        J             1e4 A/m^2                 *)
(*   losses        1e-4 J/m^3      omega         1e-3 rad/s                *)
(* Products that do not fit 32 bits go through MulDiv, which is exact.     *)
(*                                                                         *)
(* Mesh.  The step size and the step count come from the script's own      *)
(* Lx, Ly, Nx, Ny (dx = Lx/Nx).  The arrays Bz, losses, Jx, Jy are held on *)
(* a GridNx x GridNy mesh; the stencil, the gradient and the border        *)
(* overwrite are the script's, index for index.                            *)
(*                                                                         *)
(* Left out: Bz_hist and Bz_perfil, the scalars derived from delta, and    *)
(* everything from the report on (line 94 ff.); none of it is read by the  *)
(* solver, the snapshot or the batch loop.                                 *)
(***************************************************************************)
EXTENDS Integers, Sequences, FiniteSets, TLC

VARIABLES catalog, idx, pc, error, n_steps, dt, step, t,
          Bz, losses, snap_Jx, snap_Jy, snap_ok, resultados

vars == <<catalog, idx, pc, error, n_steps, dt, step, t,
          Bz, losses, snap_Jx, snap_Jy, snap_ok, resultados>>

-----------------------------------------------------------------------------
(* Bounds of the model *)

GridNx == 5
GridNy == 6
MaxCatalog == 2

-----------------------------------------------------------------------------
(* Exact integer helpers *)

Abs(a) == IF a < 0 THEN -a ELSE a

Min(a, b) == IF a <= b THEN a ELSE b

\* a/b rounded to the nearest integer, b > 0
RoundDiv(a, b) == (2 * a + b) \div (2 * b)

RECURSIVE MulQR(_, _, _)
\* <<(a*b) \div c, (a*b) % c>> for a, b >= 0 and 0 < c < 2^31/31, taking b
\* sixteen at a time so that no intermediate value leaves 32 bits
MulQR(a, b, c) ==
    IF b = 0 THEN <<0, 0>>
    ELSE LET h == MulQR(a, b \div 16, c)
             d == b % 16
             n == 16 * h[2] + d * (a % c)
         IN  <<16 * h[1] + d * (a \div c) + n \div c, n % c>>

\* a*b/c truncated toward zero, b >= 0, c > 0; a may be negative.  The
\* operands are evaluated once, before the recursion starts.
MulDiv(a, b, c) ==
    CHOOSE r \in {IF x[1] < 0 THEN -(MulQR(-x[1], x[2], x[3])[1])
                              ELSE MulQR(x[1], x[2], x[3])[1] : x \in {<<a, b, c>>}} : TRUE

Kilo == 10 * 100
Mega == Kilo * Kilo
Giga == Kilo * Mega

-----------------------------------------------------------------------------
(* Common parameters, lines 13-20 *)

Lx == 1500                    \* 0.15 m
Ly == 1500                    \* 0.15 m
Nx == 100
Ny == 100
dx == Lx \div Nx               \* 1.5 mm
dy == Ly \div Ny
Pi == 3141593                 \* np.pi
TwoPi == 2 * Pi
HalfPi == Pi \div 2
mu0 == 4 * Pi                 \* 4*pi*1e-7 H/m, in 1e-13 H/m
f == 60
omega == (2 * Pi * f) \div 1000  \* 2*pi*f, in 1e-3 rad/s
B0 == 100000                  \* 0.1 T
T == Giga \div f               \* 1/f, in ns

-----------------------------------------------------------------------------
(* Materials, lines 6-11.  Materiais is the script's table; the others are *)
(* further MaterialSpec inputs of the same shape.                          *)

Aluminio == [nome |-> "Aluminio", sigma |-> 35, mu_r |-> 1]
Cobre    == [nome |-> "Cobre",    sigma |-> 58, mu_r |-> 1]
Ferro    == [nome |-> "Ferro",    sigma |-> 10, mu_r |-> 1000]
Materiais == <<Aluminio, Cobre, Ferro>>

Aco      == [nome |-> "Aco",      sigma |-> 10, mu_r |-> 100]
Mumetal  == [nome |-> "Mumetal",  sigma |-> 10, mu_r |-> 3000]
Isolante == [nome |-> "Isolante", sigma |-> 0,        mu_r |-> 1]
OtherMaterials == {Ferro, Aco, Mumetal, Isolante}

RECURSIVE SeqsUpTo(_, _)
\* the sequences of 1..n distinct elements of S (a dict has distinct keys)
SeqsUpTo(S, n) ==
    IF n = 0 THEN {}
    ELSE LET shorter == SeqsUpTo(S, n - 1)
         IN  {<<x>> : x \in S} \cup shorter \cup
             {Append(q, x) : <<q, x>> \in
                 {qx \in shorter \X S : \A k \in 1..Len(qx[1]) : qx[1][k] # qx[2]}}

Catalogs == {Materiais} \cup SeqsUpTo(OtherMaterials, MaxCatalog)

-----------------------------------------------------------------------------
(* Per-material derivations, lines 30-35 *)

\* mu = mu0 * props["mu_r"], in 1e-10 H/m
Mu(props) == MulDiv(mu0, props.mu_r, Kilo)

\* mu * sigma, in 1e-3 s/m^2
MuSigma(props) == MulDiv(Mu(props), props.sigma, 10)

\* alpha = 1.0 / (mu * sigma) raises ZeroDivisionError when mu*sigma = 0
AlphaRaises(props) == MuSigma(props) = 0

\* the stability factor 0.2 of line 33, as 1/StabilityDen
StabilityDen == 5

\* variants of DtOf with another stability factor: 0.3 and 0.1
DtOfFactor03(props) ==
    MulDiv(MuSigma(props), 3 * Min(dx, dy) * Min(dx, dy), 200 * StabilityDen)

DtOfFactor01(props) ==
    MulDiv(MuSigma(props), Min(dx, dy) * Min(dx, dy), 200 * StabilityDen)

\* dt = 0.2 * mu * sigma * min(dx, dy)**2, in ns
DtOf(props) == MulDiv(MuSigma(props), Min(dx, dy) * Min(dx, dy), 100 * StabilityDen)

\* variant of NStepsOf that rounds T / dt up
NStepsOfRoundedUp(props) == (T + DtOf(props) - 1) \div DtOf(props)

\* n_steps = int(T / dt)
NStepsOf(props) == T \div DtOf(props)

\* dt * alpha, in 1e-3 (1e-4 m)^2
DtAlpha(props, d) == MulDiv(d, 100 * Kilo, MuSigma(props))

-----------------------------------------------------------------------------
(* np.sin, np.cos on fixed point: reduction to [0, pi/2], then the series *)

RECURSIVE SinSeries(_, _, _, _)
\* sum of the series from the term `term` (of odd degree k) on, x2 = x^2
SinSeries(term, x2, k, sign) ==
    IF term = 0 \/ k > 15 THEN 0
    ELSE sign * term +
         SinSeries(RoundDiv(MulDiv(term, x2, Mega), (k + 1) * (k + 2)), x2, k + 2, -sign)

SinFirst(x) == SinSeries(x, MulDiv(x, x, Mega), 1, 1)

\* sin of an angle >= 0
Sin(a) ==
    LET x == a % TwoPi
    IN  IF x <= HalfPi THEN SinFirst(x)
        ELSE IF x <= Pi THEN SinFirst(Pi - x)
        ELSE IF x <= Pi + HalfPi THEN -SinFirst(x - Pi)
        ELSE -SinFirst(TwoPi - x)

Cos(a) == Sin(a + HalfPi)

-----------------------------------------------------------------------------
(* Arrays *)

Rows == 0..(GridNx - 1)
Cols == 0..(GridNy - 1)
Cells == Rows \X Cols

\* np.zeros((Nx, Ny))
Zeros == [c \in Cells |-> 0]

\* the value of a name not yet bound to an array
None == <<>>

\* variant of Roll0 that shifts twice as far
Roll0Twice(A, sh, c) == A[<<(c[1] - 2 * sh) % GridNx, c[2]>>]

\* np.roll(A, sh, 0)[i, j] and np.roll(A, sh, 1)[i, j]
Roll0(A, sh, c) == A[<<(c[1] - sh) % GridNx, c[2]>>]
Roll1(A, sh, c) == A[<<c[1], (c[2] - sh) % GridNy>>]

IsBorder(c) ==
    c[1] = 0 \/ c[1] = GridNx - 1 \/ c[2] = 0 \/ c[2] = GridNy - 1

-----------------------------------------------------------------------------
(* One step of the solver, lines 45-52 *)

\* phase = omega * t, in 1e-6 rad
PhaseAt(time) == MulDiv(omega, time, Mega)

\* Bext = B0 * np.sin(phase)
Bext(phase) == MulDiv(Sin(phase), B0, Mega)

\* dt * B0 * omega * np.cos(phase)
Forcing(phase, d) ==
    MulDiv(MulDiv(MulDiv(Cos(phase), MulDiv(B0, omega, Kilo), Mega), d, Mega), 1, Kilo)

\* dt * alpha * lap at one cell; lap is the five-point stencil of lines 46-49
\* over np.roll, (.)/dx**2 + (.)/dy**2 on the common denominator
Diffusion(A, c, da) ==
    MulDiv((Roll0(A, -1, c) + Roll0(A, 1, c) - 2 * A[c]) * (dy * dy) +
           (Roll1(A, -1, c) + Roll1(A, 1, c) - 2 * A[c]) * (dx * dx),
           da, Kilo * (dx * dx) * (dy * dy))

\* Bz += dt * (alpha * lap + B0 * omega * np.cos(phase)), every cell
Advance(A, da, force) == [c \in Cells |-> A[c] + Diffusion(A, c, da) + force]

\* variant of Overwrite that leaves out Bz[:,-1]
OverwriteWithoutLastColumn(A, v) ==
    [c \in Cells |-> IF c[1] = 0 \/ c[1] = GridNx - 1 \/ c[2] = 0 THEN v ELSE A[c]]

\* Bz[0,:] = Bz[-1,:] = Bz[:,0] = Bz[:,-1] = Bext
Overwrite(A, v) == [c \in Cells |-> IF IsBorder(c) THEN v ELSE A[c]]

-----------------------------------------------------------------------------
(* Derived quantities, lines 54-56 *)

\* np.gradient(A, h, axis): centred inside, one-sided at the two ends
Gradient0(A, c) ==
    IF c[1] = 0 THEN RoundDiv((A[<<1, c[2]>>] - A[c]) * 100, dx)
    ELSE IF c[1] = GridNx - 1 THEN RoundDiv((A[c] - A[<<c[1] - 1, c[2]>>]) * 100, dx)
    ELSE RoundDiv((A[<<c[1] + 1, c[2]>>] - A[<<c[1] - 1, c[2]>>]) * 100, 2 * dx)

Gradient1(A, c) ==
    IF c[2] = 0 THEN RoundDiv((A[<<c[1], 1>>] - A[c]) * 100, dy)
    ELSE IF c[2] = GridNy - 1 THEN RoundDiv((A[c] - A[<<c[1], c[2] - 1>>]) * 100, dy)
    ELSE RoundDiv((A[<<c[1], c[2] + 1>>] - A[<<c[1], c[2] - 1>>]) * 100, 2 * dy)

\* Jx = -np.gradient(Bz, dy, axis=1) / mu
JxOf(A, m) == [c \in Cells |-> -RoundDiv(Gradient1(A, c) * 100, m)]

\* Jy = np.gradient(Bz, dx, axis=0) / mu
JyOf(A, m) == [c \in Cells |-> RoundDiv(Gradient0(A, c) * 100, m)]

\* variant of Accumulate that assigns (=) where the script adds (+=)
AccumulateAssigns(L, Jx, Jy, d, sig) ==
    [c \in Cells |-> MulDiv(Jx[c] * Jx[c] + Jy[c] * Jy[c], d, sig * Kilo)]

\* losses += (Jx**2 + Jy**2) * dt / sigma
Accumulate(L, Jx, Jy, d, sig) ==
    [c \in Cells |-> L[c] + MulDiv(Jx[c] * Jx[c] + Jy[c] * Jy[c], d, sig * Kilo)]

-----------------------------------------------------------------------------
(* Snapshot, lines 59-61 *)

\* variant of InWindow with the tolerance omega*dt
InWindowNarrow(phase, d) == Abs((phase % TwoPi) - HalfPi) < MulDiv(omega, d, Mega)

\* variant of Captures without `not snap_ok`
CapturesEveryTime(ok, phase, d) == Abs((phase % TwoPi) - HalfPi) < MulDiv(omega, d, Mega) * 2

\* abs((phase % (2*np.pi)) - np.pi/2) < omega*dt*2
InWindow(phase, d) == Abs((phase % TwoPi) - HalfPi) < MulDiv(omega, d, Mega) * 2

\* if not snap_ok and abs(...) < omega*dt*2
Captures(ok, phase, d) == ~ok /\ InWindow(phase, d)

-----------------------------------------------------------------------------
(* The script *)

props == catalog[idx]

Init ==
    /\ catalog \in Catalogs
    /\ idx = 1
    /\ pc = "for"
    /\ error = "none"
    /\ n_steps = 0 /\ dt = 0 /\ step = 0 /\ t = 0
    /\ Bz = None /\ losses = None
    /\ snap_Jx = None /\ snap_Jy = None /\ snap_ok = FALSE
    /\ resultados = <<>>

\* lines 29-42: the next material of the table, its step size and step
\* count, fresh arrays
Setup ==
    /\ pc = "for" /\ idx <= Len(catalog)
    /\ ~AlphaRaises(props)
    /\ dt' = DtOf(props)
    /\ n_steps' = NStepsOf(props)
    /\ Bz' = Zeros /\ losses' = Zeros
    /\ snap_Jx' = None /\ snap_Jy' = None /\ snap_ok' = FALSE
    /\ t' = 0 /\ step' = 0
    /\ pc' = "loop"
    /\ UNCHANGED <<catalog, idx, error, resultados>>

\* line 32 raises; nothing catches it and the script ends
SetupRaises ==
    /\ pc = "for" /\ idx <= Len(catalog)
    /\ AlphaRaises(props)
    /\ pc' = "crashed" /\ error' = "ZeroDivisionError"
    /\ UNCHANGED <<catalog, idx, n_steps, dt, step, t, Bz, losses,
                   snap_Jx, snap_Jy, snap_ok, resultados>>

\* lines 44-62: one iteration of `for step in range(n_steps)`
Step ==
    /\ pc = "loop" /\ step < n_steps
    /\ \E phase \in {PhaseAt(t)} :
       \E NewBz \in {Overwrite(Advance(Bz, DtAlpha(props, dt), Forcing(phase, dt)),
                               Bext(phase))} :
       \E Jx \in {JxOf(NewBz, Mu(props))}, Jy \in {JyOf(NewBz, Mu(props))} :
          /\ Bz' = NewBz
          /\ losses' = Accumulate(losses, Jx, Jy, dt, props.sigma)
          /\ IF Captures(snap_ok, phase, dt)
             THEN snap_Jx' = Jx /\ snap_Jy' = Jy /\ snap_ok' = TRUE
             ELSE UNCHANGED <<snap_Jx, snap_Jy, snap_ok>>
    /\ t' = t + dt
    /\ step' = step + 1
    /\ UNCHANGED <<catalog, idx, pc, error, n_steps, dt, resultados>>

\* losses_avg = losses / T, in W/m^3
LossesAvg(L) == [c \in Cells |-> MulDiv(L[c], 100 * Kilo, T)]

\* resultados[nome] = {...}, lines 73-91, the fields the model keeps
Bundle ==
    [sigma |-> props.sigma, mu_r |-> props.mu_r, n_steps |-> n_steps,
     snap_Jx |-> snap_Jx, snap_Jy |-> snap_Jy, losses_avg |-> LossesAvg(losses)]

\* lines 64-92 after the loop has run n_steps times
Summarize ==
    /\ pc = "loop" /\ step = n_steps
    /\ snap_Jx # None
    /\ resultados' = (props.nome :> Bundle) @@ resultados
    /\ idx' = idx + 1
    /\ pc' = "for"
    /\ UNCHANGED <<catalog, error, n_steps, dt, step, t, Bz, losses,
                   snap_Jx, snap_Jy, snap_ok>>

\* line 65 with snap_Jx still None: None**2 raises TypeError
SummarizeRaises ==
    /\ pc = "loop" /\ step = n_steps
    /\ snap_Jx = None
    /\ pc' = "crashed" /\ error' = "TypeError"
    /\ UNCHANGED <<catalog, idx, n_steps, dt, step, t, Bz, losses,
                   snap_Jx, snap_Jy, snap_ok, resultados>>

\* the table is exhausted: the script goes on to the report
Finish ==
    /\ pc = "for" /\ idx > Len(catalog)
    /\ pc' = "done"
    /\ UNCHANGED <<catalog, idx, error, n_steps, dt, step, t, Bz, losses,
                   snap_Jx, snap_Jy, snap_ok, resultados>>

Next == Setup \/ SetupRaises \/ Step \/ Summarize \/ SummarizeRaises \/ Finish

Spec == Init /\ [][Next]_vars

-----------------------------------------------------------------------------
(* Vocabulary of the properties *)

\* a step of the stepping loop has just been taken
Stepped == pc = "loop" /\ step' = step + 1

\* the stepping loop of the current material has ended
LoopEnded == pc = "loop" /\ step = n_steps

\* this step stores the snapshot
Capturing == Stepped /\ ~snap_ok /\ snap_ok'

\* | (omega*k*dt mod 2*pi) - pi/2 |, the distance of step k from quadrature
QuadratureDistance(k) == Abs((PhaseAt(k * dt) % TwoPi) - HalfPi)

\* the tolerance 2*omega*dt
Tolerance == 2 * MulDiv(omega, dt, Mega)

Interior == {c \in Cells : ~IsBorder(c)}

\* a material whose run neither raises in the setup nor ends without snapshot
RunsClean(m) == MuSigma(m) # 0 /\ T \div DtOf(m) >= 1

-----------------------------------------------------------------------------
\* C1: after every step, every border cell of Bz (rows 0 and Nx-1, columns 0
\* and Ny-1, corners included) equals B0*sin(phase), phase = omega*t being the
\* phase at the start of that step; nothing of the stencil update is left there.
C1_BoundaryExact ==
    step >= 1 =>
        \A c \in Cells :
            (c[1] = 0 \/ c[1] = GridNx - 1 \/ c[2] = 0 \/ c[2] = GridNy - 1)
                => Bz[c] = MulDiv(Sin(PhaseAt(t - dt)), B0, Mega)

\* a state after several steps with a non-zero border value and an interior
\* cell that holds another value
C1_Witness ==
    /\ pc = "loop" /\ step >= 2
    /\ Bz[<<0, 0>>] # 0
    /\ \E c \in Interior : Bz[c] # Bz[<<0, 0>>]

-----------------------------------------------------------------------------
\* C2 as stated: in every material's run exactly one snapshot is captured, at
\* a step with |(phase mod 2*pi) - pi/2| < 2*omega*dt, and once snap_ok is set
\* the stored snapshot is not overwritten by a later step of the run.
C2_AsStated ==
    /\ [](LoopEnded => snap_ok /\ snap_Jx # None /\ snap_Jy # None)
    /\ [][Capturing => QuadratureDistance(step) < Tolerance]_vars
    /\ [][(pc = "loop" /\ snap_ok) =>
            (snap_ok' /\ snap_Jx' = snap_Jx /\ snap_Jy' = snap_Jy)]_vars

\* C2 amended: in every run of at least one step exactly one snapshot is
\* captured, at a step with |(phase mod 2*pi) - pi/2| < 2*omega*dt, and once
\* snap_ok is set the stored snapshot is not changed by a later step of the run.
C2_SnapshotUnique ==
    /\ []((LoopEnded /\ n_steps >= 1) => snap_ok /\ snap_Jx # None /\ snap_Jy # None)
    /\ [][Capturing => QuadratureDistance(step) < Tolerance]_vars
    /\ [][(pc = "loop" /\ snap_ok) =>
            (snap_ok' /\ snap_Jx' = snap_Jx /\ snap_Jy' = snap_Jy)]_vars

\* a later step of the run lies in the window too, and the stored snapshot is
\* not the current density of that step
C2_Witness ==
    /\ pc = "loop" /\ snap_ok /\ step >= 2
    /\ QuadratureDistance(step - 1) < Tolerance
    /\ snap_Jx # JxOf(Bz, Mu(props))

-----------------------------------------------------------------------------
\* C3: for every material of the table and at every step of its run, every
\* cell of Bz stays within a small fixed multiple of B0 (here 3*B0): the
\* explicit update with dt = 0.2*mu*sigma*min(dx,dy)^2 does not diverge.
C3_Stability ==
    (catalog = Materiais /\ Bz # None) =>
        \A c \in Cells : Abs(Bz[c]) <= 3 * B0

\* a run of the table in which an interior cell exceeds 2*B0
C3_Witness ==
    /\ catalog = Materiais /\ pc = "loop" /\ step >= 1
    /\ \E c \in Interior : Abs(Bz[c]) > 2 * B0

-----------------------------------------------------------------------------
\* C4: within one run the loss accumulator starts at zero in every cell and,
\* from each step to the next, no cell of `losses` decreases.
C4_MonotoneLoss ==
    [][ /\ (pc = "for" /\ pc' = "loop") => \A c \in Cells : losses'[c] = 0
        /\ Stepped => \A c \in Cells : losses'[c] >= losses[c] ]_vars

\* losses have grown in some cell over several steps
C4_Witness ==
    /\ pc = "loop" /\ step >= 2
    /\ \E c \in Cells : losses[c] > 0

-----------------------------------------------------------------------------
\* C5 as stated: the loop stops after exactly n_steps = floor(T/dt) steps and
\* the elapsed time at termination, t = n_steps*dt, equals the period T.
C5_ExactlyOnePeriod ==
    LoopEnded => (n_steps = T \div dt /\ t = n_steps * dt /\ t = T)

\* C5 amended: the loop stops after exactly n_steps = floor(T/dt) steps and
\* the elapsed time at termination is t = n_steps*dt, with T - dt < t <= T:
\* the last fraction of a step of the period is left out.
C5_WholeStepsOfPeriod ==
    /\ pc = "loop" => step <= n_steps /\ t = step * dt
    /\ LoopEnded => (n_steps = T \div dt /\ T - dt < t /\ t <= T)

\* a run of several steps has ended short of the period
C5_Witness == LoopEnded /\ n_steps >= 2 /\ t < T

-----------------------------------------------------------------------------
\* C6 as stated: for every material of the table, the step at which the
\* snapshot is captured minimises |(omega*k*dt mod 2*pi) - pi/2| over the
\* steps k in 0..n_steps-1 of the run.
C6_NearestToQuadrature ==
    [][(Capturing /\ catalog = Materiais) =>
        \A k \in 0..(n_steps - 1) :
            QuadratureDistance(step) <= QuadratureDistance(k)]_vars

\* C6 amended: the step at which the snapshot is captured is the first step k
\* of the run with |(omega*k*dt mod 2*pi) - pi/2| < 2*omega*dt.
C6_FirstInWindow ==
    [][Capturing =>
        /\ QuadratureDistance(step) < Tolerance
        /\ \A k \in 0..(step - 1) : ~(QuadratureDistance(k) < Tolerance)]_vars

\* a snapshot taken at a step that is not the first of the run, while a later
\* step of the run is nearer to quadrature
C6_Witness ==
    /\ catalog = Materiais /\ pc = "loop" /\ snap_ok
    /\ step >= 2
    /\ QuadratureDistance(step - 1) < Tolerance
    /\ ~(QuadratureDistance(step - 2) < Tolerance)
    /\ snap_Jx = JxOf(Bz, Mu(props))
    /\ QuadratureDistance(step) < QuadratureDistance(step - 1)

-----------------------------------------------------------------------------
\* C7: when the loop of a run ends with no snapshot captured (a run of zero
\* steps included), summarization signals MissingSnapshot for that material.
C7_MissingSnapshot ==
    (pc = "crashed" /\ step = n_steps /\ ~snap_ok /\ MuSigma(props) # 0)
        => error = "MissingSnapshot"

-----------------------------------------------------------------------------
\* C8: when a material's run is invalid (zero conductivity, missing snapshot),
\* only that material is given up: once the script has ended, every other
\* material of the table has its bundle in `resultados`.
C8_FailureIsolation ==
    pc \in {"done", "crashed"} =>
        \A k \in 1..Len(catalog) :
            RunsClean(catalog[k]) => catalog[k].nome \in DOMAIN resultados

-----------------------------------------------------------------------------
\* C9 as stated: in the reference configuration the material sigma = 1.0e7,
\* mu_r = 1000 runs with n_steps in the low thousands, and the material
\* sigma = 5.8e7, mu_r = 1 runs with fewer n_steps than it.
C9_StepCountsAsStated ==
    \A a \in DOMAIN resultados :
        (resultados[a].sigma = 10 /\ resultados[a].mu_r = 1000) =>
            /\ resultados[a].n_steps \in 1000..9999
            /\ \A b \in DOMAIN resultados :
                   (resultados[b].sigma = 58 /\ resultados[b].mu_r = 1)
                       => resultados[b].n_steps < resultados[a].n_steps

\* C9 amended: in the reference configuration the material sigma = 1.0e7,
\* mu_r = 1000 runs with n_steps = 2, and the material sigma = 5.8e7, mu_r = 1
\* runs with more n_steps than it, 508.
C9_StepCounts ==
    \A a \in DOMAIN resultados :
        (resultados[a].sigma = 10 /\ resultados[a].mu_r = 1000) =>
            /\ resultados[a].n_steps = 2
            /\ \A b \in DOMAIN resultados :
                   (resultados[b].sigma = 58 /\ resultados[b].mu_r = 1)
                       => /\ resultados[b].n_steps = 508
                          /\ resultados[b].n_steps > resultados[a].n_steps

\* the table has been simulated to its end and holds both materials
C9_Witness ==
    /\ pc = "done"
    /\ \E a, b \in DOMAIN resultados :
           /\ resultados[a].sigma = 10 /\ resultados[a].mu_r = 1000
           /\ resultados[b].sigma = 58 /\ resultados[b].mu_r = 1

-----------------------------------------------------------------------------
\* C10: on a grid of at least 3 x 3 cells, each step of the solver (np.roll
\* Laplacian, update, border overwrite) yields cell for cell the grid of a
\* solver that applies a non-wrapping five-point stencil to the interior cells
\* only and then the same border overwrite.
NoWrapDiffusion(A, c, da) ==
    MulDiv((A[<<c[1] + 1, c[2]>>] + A[<<c[1] - 1, c[2]>>] - 2 * A[c]) * (dy * dy) +
           (A[<<c[1], c[2] + 1>>] + A[<<c[1], c[2] - 1>>] - 2 * A[c]) * (dx * dx),
           da, Kilo * (dx * dx) * (dy * dy))

NoWrapStep(A, da, force, border) ==
    [c \in Cells |->
        IF c[1] \in 1..(GridNx - 2) /\ c[2] \in 1..(GridNy - 2)
        THEN A[c] + NoWrapDiffusion(A, c, da) + force
        ELSE border]

C10_WraparoundUnobservable ==
    [][Stepped =>
        Bz' = NoWrapStep(Bz, MulDiv(dt, 100 * Kilo, MuSigma(props)),
                         Forcing(PhaseAt(t), dt),
                         MulDiv(Sin(PhaseAt(t)), B0, Mega))]_vars

\* the next stencil update writes, on a border cell, a value that reads the
\* opposite edge and differs from the forcing value
C10_Witness ==
    /\ pc = "loop" /\ 1 <= step /\ step < n_steps
    /\ GridNx >= 3 /\ GridNy >= 3
    /\ \E c \in Cells \ Interior :
           Advance(Bz, DtAlpha(props, dt), Forcing(PhaseAt(t), dt))[c]
               # Bext(PhaseAt(t))

=============================================================================
